---- MODULE Spec2Model ----
(***************************************************************************)
(* Model of the cache line movement benchmark: the spin_latch and          *)
(* test_runner::run of main.cpp, and of tests.cpp / tests.h the work phases *)
(* and reports of one_side_test (mode 0), ping_pong_test (mode 2) and       *)
(* one_side_asm_relax_branch_pred_test (mode 3), and calc_and_print_stat.   *)
(*                                                                         *)
(* Worker 1 is thread t1 (one_prepare / one_work, m_errors[0]), worker 2   *)
(* is thread t2 (another_prepare / another_work, m_errors[1]).  Every      *)
(* access to an atomic (m_counter, m_continue, g_test_data) and every      *)
(* rdtsc is one step; the steps of the two threads interleave freely.      *)
(* The program is x86-64 only (rdtsc inline assembly): fetch_sub is a      *)
(* locked read-modify-write and stores leave a core in program order, so   *)
(* what a thread wrote before its decrement of m_counter is visible to a   *)
(* thread that has seen the counter at zero.                               *)
(*                                                                         *)
(* A busy-wait iteration that reads an unchanged value changes no state:    *)
(* a thread that spins for ever shows up as a behaviour that stutters.     *)
(***************************************************************************)
EXTENDS Integers, Sequences, FiniteSets, TLC

\* ---- bounds of the model ----
MaxAttempts == 2      \* m_attempts_count ranges over 1..MaxAttempts
MaxTsc == 3           \* the cycle counter stops advancing here
WindowSize == 2       \* stands for s_samples_size, the length of m_samples
MaxSamples == 7       \* calc_and_print_stat alone: samples of length 0..MaxSamples
MaxFreq == 2          \* get_cpu_freq_ghz yields 0 (unknown) or 1..MaxFreq

\* ---- program constants ----
LatchExpected == 2    \* m_start_barrier{2}
WAIT == 0             \* m_continue{0}, m_continue.store(0)
GO == 1               \* m_continue.store(1)
STOP == -1            \* m_continue.store(-1)
s_ping_pongs == 100   \* ping_pong_test::s_ping_pongs

Workers == {1, 2}
Other(w) == 3 - w

\* the test cases main() can hand to run(): --mode 0, --mode 3, --mode 2
Modes == {"one_side", "relax", "ping_pong"}

VARIABLES
    mode,             \* the class of the test case
    pc,               \* position of each worker thread
    rpc,              \* position of run() on the orchestrating thread
    crashed,          \* the process died on a wild store
    m_counter,        \* spin_latch::m_counter
    fetched,          \* per worker: value fetch_sub returned (0: not called)
    m_errors,         \* test_runner::m_errors, TRUE = exception_ptr set
    res,              \* local res of run()
    reports,          \* number of calls of test_case->report
    samples,          \* the vector report hands to calc_and_print_stat
    workCalls,        \* per worker: number of calls of its work phase
    m_attempts_count, \* config::m_attempts_count
    m_start_cycles,   \* one_side_test::m_start_cycles
    m_end_cycles,     \* one_side_test::m_end_cycles
    m_continue,       \* one_side_test::m_continue
    g_test_data,      \* the shared cache line
    tsc,              \* the cycle counter rdtsc reads
    cont,             \* one_work: local cont
    one_sample,       \* one_work: local data_sample
    start_cycle,      \* one_work: start_cycle - &m_start_cycles[0]
    another_sample,   \* another_work: local data_sample
    end_cycle,        \* another_work: end_cycle - &m_end_cycles[0]
    attempt,          \* another_work: loop variable attempt
    goCount,          \* number of executions of the body of another_work's loop
    endAfterStart,    \* per attempt: the last end stamp was read after the start stamp
    m_cycles,         \* ping_pong_test::m_cycles
    one_attempt,      \* ping_pong one_work: index of cycles_on_attempt in m_cycles
    one_i,            \* ping_pong one_work: local i
    another_attempt,  \* ping_pong another_work: local attempt (counts down)
    another_i,        \* ping_pong another_work: local i
    casLog,           \* the successful CAS of the current attempt: <<worker, expected>>
    m_samples,        \* one_side_asm_relax_branch_pred_test::m_samples
    sample_idx,       \* relax another_work: position of the loop over m_samples
    loadCount,        \* number of loads of g_test_data by relax another_work
    endValue,         \* per attempt: the value read with the stamp stored as its end
    seenGo,           \* goCount when one_work last read go from m_continue
    sample_scale,     \* the divisor report applies to every sample it pushes
    cpufreq_ghz,      \* the frequency run() passes to report (0: unknown)
    out               \* what calc_and_print_stat printed

runnerVars == <<rpc, res, reports, samples>>
latchVars == <<m_counter, fetched>>
bufVars == <<m_start_cycles, m_end_cycles>>
oneVars == <<cont, one_sample, start_cycle>>
anotherVars == <<another_sample, end_cycle, attempt, goCount, endAfterStart>>
sharedVars == <<m_continue, g_test_data>>
ppVars == <<m_cycles, one_attempt, one_i, another_attempt, another_i, casLog>>
relaxVars == <<m_samples, sample_idx, loadCount, endValue, seenGo>>
statVars == <<sample_scale, cpufreq_ghz, out>>

vars == <<pc, rpc, crashed, m_counter, fetched, m_errors, res, reports, samples,
          workCalls, m_attempts_count, m_start_cycles, m_end_cycles, m_continue,
          g_test_data, tsc, cont, one_sample, start_cycle, another_sample,
          end_cycle, attempt, goCount, endAfterStart, mode, ppVars, relaxVars,
          statVars>>

\* a vector of n value-initialised elements (vector::resize on an empty vector)
Zeros(n) == [i \in 1..n |-> 0]

\* nothing printed yet
NoOutput == [printed |-> FALSE]

Init ==
    /\ mode \in Modes
    /\ m_cycles = <<>>
    /\ one_attempt = 0
    /\ one_i = 0
    /\ another_attempt = 0
    /\ another_i = 0
    /\ casLog = <<>>
    /\ m_samples = <<>>
    /\ sample_idx = 0
    /\ loadCount = 0
    /\ endValue = [i \in 0..(MaxAttempts + 1) |-> 0]
    /\ seenGo = 0
    /\ sample_scale = 1
    /\ cpufreq_ghz = 0
    /\ out = NoOutput
    /\ pc = [w \in Workers |-> "affinity"]
    /\ rpc = "join1"
    /\ crashed = FALSE
    /\ m_counter = LatchExpected
    /\ fetched = [w \in Workers |-> 0]
    /\ m_errors = [w \in Workers |-> FALSE]
    /\ res = 0
    /\ reports = 0
    /\ samples = <<>>
    /\ workCalls = [w \in Workers |-> 0]
    /\ m_attempts_count \in 1..MaxAttempts
    /\ m_start_cycles = <<>>
    /\ m_end_cycles = <<>>
    /\ m_continue = WAIT
    /\ g_test_data = 0
    /\ tsc = 1
    /\ cont = 0
    /\ one_sample = 0
    /\ start_cycle = 0
    /\ another_sample = 0
    /\ end_cycle = 0
    /\ attempt = 0
    /\ goCount = 0
    /\ endAfterStart = [i \in 0..(MaxAttempts + 1) |-> FALSE]

\* the cycle counter advances on its own
Tick ==
    /\ ~crashed
    /\ tsc < MaxTsc
    /\ tsc' = tsc + 1
    /\ UNCHANGED <<mode, ppVars, relaxVars, statVars, pc, crashed, m_errors, workCalls, m_attempts_count,
                   runnerVars, latchVars, bufVars, oneVars, anotherVars, sharedVars>>

\* ---- spin_latch (main.cpp:41-52) ----

\* slip: any call that finds the counter at n or above takes itself for the last
LastArrival_eager(old, n) == old >= n

\* fetch_sub(n) == n: this call's subtraction brings the counter to zero
LastArrival(old, n) == old = n

\* slip: the loop polls for a negative counter, which two arrivals never produce
LatchOpen_negative(c) == c < 0

\* the polling loop ends when the counter reads zero
LatchOpen(c) == c = 0

\* ---- test_runner::run, the two worker lambdas (main.cpp:68-95) ----

\* set_thread_affinity(m_cpuids[w-1]): pthread_setaffinity_np succeeds, or the
\* system_error it throws is caught and stored in m_errors[w-1]
set_thread_affinity(w) ==
    /\ ~crashed
    /\ pc[w] = "affinity"
    /\ \E ok \in BOOLEAN :
         IF ok
         THEN /\ pc' = [pc EXCEPT ![w] = "prepare"]
              /\ m_errors' = m_errors
         ELSE /\ pc' = [pc EXCEPT ![w] = "arrive"]
              /\ m_errors' = [m_errors EXCEPT ![w] = TRUE]
    /\ UNCHANGED <<mode, ppVars, relaxVars, statVars, crashed, workCalls, m_attempts_count, tsc,
                   runnerVars, latchVars, bufVars, oneVars, anotherVars, sharedVars>>

\* how a prepare call can end: the resize succeeds or throws; the empty
\* ping_pong_test::another_prepare cannot throw; the another_prepare of the relax
\* test resizes m_end_cycles and then m_samples, and either resize can throw
PrepareOutcomes(w) ==
    IF mode = "ping_pong" /\ w = 2 THEN {"ok"}
    ELSE IF mode = "relax" /\ w = 2 THEN {"ok", "throw", "throw_samples"}
    ELSE {"ok", "throw"}

\* one_prepare / another_prepare (tests.h:63-69, 92-95, 113-114): resize the
\* worker's buffers; when a resize throws, its vector stays empty and the
\* exception is stored in m_errors[w-1]
prepare(w) ==
    /\ ~crashed
    /\ pc[w] = "prepare"
    /\ \E o \in PrepareOutcomes(w) :
         /\ m_start_cycles' = IF o = "ok" /\ w = 1 /\ mode # "ping_pong"
                              THEN Zeros(m_attempts_count) ELSE m_start_cycles
         /\ m_end_cycles' = IF o \in {"ok", "throw_samples"} /\ w = 2 /\ mode # "ping_pong"
                            THEN Zeros(m_attempts_count) ELSE m_end_cycles
         /\ m_cycles' = IF o = "ok" /\ w = 1 /\ mode = "ping_pong"
                        THEN Zeros(m_attempts_count) ELSE m_cycles
         /\ m_samples' = IF o = "ok" /\ w = 2 /\ mode = "relax"
                         THEN [i \in 1..WindowSize |-> <<0, 0>>] ELSE m_samples
         /\ m_errors' = IF o = "ok" THEN m_errors ELSE [m_errors EXCEPT ![w] = TRUE]
    /\ pc' = [pc EXCEPT ![w] = "arrive"]
    /\ UNCHANGED <<mode, statVars, crashed, workCalls, m_attempts_count, tsc,
                   one_attempt, one_i, another_attempt, another_i, casLog,
                   sample_idx, loadCount, endValue, seenGo,
                   runnerVars, latchVars, oneVars, anotherVars, sharedVars>>

\* m_start_barrier.arrive_and_wait(): the fetch_sub(1) and its comparison
arrive(w) ==
    /\ ~crashed
    /\ pc[w] = "arrive"
    /\ fetched' = [fetched EXCEPT ![w] = m_counter]
    /\ m_counter' = m_counter - 1
    /\ pc' = [pc EXCEPT ![w] = IF LastArrival(m_counter, 1) THEN "released" ELSE "poll"]
    /\ UNCHANGED <<mode, ppVars, relaxVars, statVars, crashed, m_errors, workCalls, m_attempts_count, tsc,
                   runnerVars, bufVars, oneVars, anotherVars, sharedVars>>

\* m_start_barrier.arrive_and_wait(): the load that ends the polling loop
poll(w) ==
    /\ ~crashed
    /\ pc[w] = "poll"
    /\ LatchOpen(m_counter)
    /\ pc' = [pc EXCEPT ![w] = "released"]
    /\ UNCHANGED <<mode, ppVars, relaxVars, statVars, crashed, m_errors, workCalls, m_attempts_count, tsc,
                   runnerVars, latchVars, bufVars, oneVars, anotherVars, sharedVars>>

\* slip: each worker looks at its own error slot
PeerFailed_own(w) == m_errors[w]

\* if (m_errors[1]) return;  in t1,  if (m_errors[0]) return;  in t2
PeerFailed(w) == m_errors[Other(w)]

\* where the work phase of worker w starts in the class of the test case
WorkEntry(w) ==
    IF mode = "ping_pong"
    THEN (IF w = 1 THEN "pp_one_begin" ELSE "pp_another_begin")
    ELSE IF mode = "relax"
    THEN (IF w = 1 THEN "one_poll" ELSE "relax_loop")
    ELSE (IF w = 1 THEN "one_poll" ELSE "another_loop")

\* the check after the barrier, and the entry into one_work / another_work with
\* the initialisation of its locals (tests.cpp:95-97, 122-125, 237, 251)
check_peer(w) ==
    /\ ~crashed
    /\ pc[w] = "released"
    /\ IF PeerFailed(w)
       THEN /\ pc' = [pc EXCEPT ![w] = "done"]
            /\ UNCHANGED <<workCalls, oneVars, anotherVars, ppVars>>
       ELSE /\ workCalls' = [workCalls EXCEPT ![w] = @ + 1]
            /\ pc' = [pc EXCEPT ![w] = WorkEntry(w)]
            /\ IF mode = "ping_pong"
               THEN /\ one_attempt' = IF w = 1 THEN 0 ELSE one_attempt
                    /\ another_attempt' = IF w = 2 THEN Len(m_cycles) ELSE another_attempt
                    /\ UNCHANGED <<oneVars, anotherVars, m_cycles, one_i, another_i, casLog>>
               ELSE /\ IF w = 1
                       THEN /\ one_sample' = 1
                            /\ start_cycle' = 0
                            /\ UNCHANGED <<cont, anotherVars>>
                       ELSE /\ another_sample' = 1
                            /\ end_cycle' = 0
                            /\ attempt' = 0
                            /\ UNCHANGED <<goCount, endAfterStart, oneVars>>
                    /\ UNCHANGED ppVars
    /\ UNCHANGED <<mode, relaxVars, statVars, crashed, m_errors, m_attempts_count, tsc,
                   runnerVars, latchVars, bufVars, sharedVars>>

\* ---- one_side_test::one_work (tests.cpp:94-119) ----

\* if (cont = m_continue.load(); cont < 0) return;
OneStops(c) == c < 0

\* one load of m_continue in the inner do-while: stop returns, wait polls again,
\* go leaves the loop (tests.cpp:100-103, and the same at 162-165)
one_poll ==
    /\ ~crashed
    /\ pc[1] = "one_poll"
    /\ cont' = m_continue
    /\ seenGo' = IF m_continue = GO THEN goCount ELSE seenGo
    /\ pc' = [pc EXCEPT ![1] = IF OneStops(m_continue) THEN "done"
                              ELSE IF m_continue = WAIT THEN "one_poll"
                              ELSE "one_reset"]
    /\ UNCHANGED <<mode, ppVars, statVars, crashed, m_errors, workCalls,
                   m_attempts_count, tsc, one_sample, start_cycle,
                   m_samples, sample_idx, loadCount, endValue,
                   runnerVars, latchVars, bufVars, anotherVars, sharedVars>>

\* m_continue.store(0); the warm-up loop of code_barrier() touches no state
\* (tests.cpp:105-109, and the same at 167-171)
one_reset ==
    /\ ~crashed
    /\ pc[1] = "one_reset"
    /\ m_continue' = WAIT
    /\ pc' = [pc EXCEPT ![1] = IF mode = "relax" THEN "asm_store" ELSE "one_rdtsc"]
    /\ UNCHANGED <<mode, ppVars, relaxVars, statVars, crashed, m_errors, workCalls,
                   m_attempts_count, tsc, g_test_data,
                   runnerVars, latchVars, bufVars, oneVars, anotherVars>>

\* *start_cycle = rdtsc();  a store past the end of the vector (or into an empty
\* one) is undefined: the process faults, or the store lands outside the vector
one_rdtsc ==
    /\ ~crashed
    /\ pc[1] = "one_rdtsc"
    /\ IF start_cycle < Len(m_start_cycles)
       THEN /\ m_start_cycles' = [m_start_cycles EXCEPT ![start_cycle + 1] = tsc]
            /\ crashed' = FALSE
       ELSE /\ m_start_cycles' = m_start_cycles
            /\ crashed' \in BOOLEAN
    /\ pc' = [pc EXCEPT ![1] = "one_store"]
    /\ UNCHANGED <<mode, ppVars, relaxVars, statVars, m_errors, workCalls, m_attempts_count, tsc, m_end_cycles,
                   runnerVars, latchVars, oneVars, anotherVars, sharedVars>>

\* slip: the pointer is never advanced
NextStartCycle_stuck(p) == p

\* the pointer one_work writes its next start stamp through: ++start_cycle
NextStartCycle(p) == p + 1

\* g_test_data.store(data_sample); ++start_cycle; ++data_sample;
one_store ==
    /\ ~crashed
    /\ pc[1] = "one_store"
    /\ g_test_data' = one_sample
    /\ start_cycle' = NextStartCycle(start_cycle)
    /\ one_sample' = one_sample + 1
    /\ pc' = [pc EXCEPT ![1] = "one_poll"]
    /\ UNCHANGED <<mode, ppVars, relaxVars, statVars, crashed, m_errors, workCalls, m_attempts_count, tsc, m_continue,
                   cont, runnerVars, latchVars, bufVars, anotherVars>>

\* ---- one_side_test::another_work (tests.cpp:121-143) ----

\* slip: off by one, the loop runs once more
AttemptsLeft_inclusive(a) == a <= m_attempts_count

\* the loop condition  attempt < m_config.m_attempts_count
AttemptsLeft(a) == a < m_attempts_count

\* one_work has read the start stamp of the attempt whose sample value is s
OneStamped(s) == one_sample > s \/ (one_sample = s /\ pc[1] = "one_store")

\* loop condition true: m_continue.store(1)
another_go ==
    /\ ~crashed
    /\ pc[2] = "another_loop"
    /\ AttemptsLeft(attempt)
    /\ m_continue' = GO
    /\ goCount' = goCount + 1
    /\ pc' = [pc EXCEPT ![2] = "another_rdtsc"]
    /\ UNCHANGED <<mode, ppVars, relaxVars, statVars, crashed, m_errors, workCalls, m_attempts_count, tsc, g_test_data,
                   another_sample, end_cycle, attempt, endAfterStart,
                   runnerVars, latchVars, bufVars, oneVars>>

\* *end_cycle = rdtsc();  undefined as in one_rdtsc when the vector has no such
\* element
another_rdtsc ==
    /\ ~crashed
    /\ pc[2] = "another_rdtsc"
    /\ IF end_cycle < Len(m_end_cycles)
       THEN /\ m_end_cycles' = [m_end_cycles EXCEPT ![end_cycle + 1] = tsc]
            /\ crashed' = FALSE
       ELSE /\ m_end_cycles' = m_end_cycles
            /\ crashed' \in BOOLEAN
    /\ endAfterStart' = [endAfterStart EXCEPT ![end_cycle] = OneStamped(another_sample)]
    /\ pc' = [pc EXCEPT ![2] = "another_load"]
    /\ UNCHANGED <<mode, ppVars, relaxVars, statVars, m_errors, workCalls, m_attempts_count, tsc, m_start_cycles,
                   another_sample, end_cycle, attempt, goCount,
                   runnerVars, latchVars, oneVars, sharedVars>>

\* variant: another_work does not wait for the expected value
Matches_any(v, sample) == TRUE

\* while (g_test_data.load() != data_sample): the loop ends on the expected value
Matches(v, sample) == v = sample

\* the load of g_test_data; on a match ++end_cycle; ++data_sample; ++attempt
another_load ==
    /\ ~crashed
    /\ pc[2] = "another_load"
    /\ IF Matches(g_test_data, another_sample)
       THEN /\ end_cycle' = end_cycle + 1
            /\ another_sample' = another_sample + 1
            /\ attempt' = attempt + 1
            /\ pc' = [pc EXCEPT ![2] = "another_loop"]
       ELSE /\ UNCHANGED <<end_cycle, another_sample, attempt>>
            /\ pc' = [pc EXCEPT ![2] = "another_rdtsc"]
    /\ UNCHANGED <<mode, ppVars, relaxVars, statVars, crashed, m_errors, workCalls, m_attempts_count, tsc, goCount,
                   endAfterStart, runnerVars, latchVars, bufVars, oneVars, sharedVars>>

\* slip: the flag is set back to wait and stop is never stored
StopValue_wait == WAIT

\* the value stored into m_continue after the loop
StopValue == STOP

\* loop condition false: m_continue.store(-1) and return
another_stop ==
    /\ ~crashed
    /\ pc[2] = "another_loop"
    /\ ~AttemptsLeft(attempt)
    /\ m_continue' = StopValue
    /\ pc' = [pc EXCEPT ![2] = "done"]
    /\ UNCHANGED <<mode, ppVars, relaxVars, statVars, crashed, m_errors, workCalls, m_attempts_count, tsc, g_test_data,
                   runnerVars, latchVars, bufVars, oneVars, anotherVars>>

\* ---- one_side_asm_test::one_work (tests.cpp:156-180) ----

\* produce_and_get_cycles(data_sample), its first instruction: mov val, g_test_data
asm_store ==
    /\ ~crashed
    /\ pc[1] = "asm_store"
    /\ g_test_data' = one_sample
    /\ pc' = [pc EXCEPT ![1] = "asm_rdtsc"]
    /\ UNCHANGED <<mode, ppVars, relaxVars, statVars, crashed, m_errors, workCalls,
                   m_attempts_count, tsc, m_continue,
                   runnerVars, latchVars, bufVars, oneVars, anotherVars>>

\* produce_and_get_cycles, its rdtsc; *start_cycle = the stamp; ++start_cycle;
\* ++data_sample; a store outside the vector is undefined as in one_rdtsc
asm_rdtsc ==
    /\ ~crashed
    /\ pc[1] = "asm_rdtsc"
    /\ IF start_cycle < Len(m_start_cycles)
       THEN /\ m_start_cycles' = [m_start_cycles EXCEPT ![start_cycle + 1] = tsc]
            /\ crashed' = FALSE
       ELSE /\ m_start_cycles' = m_start_cycles
            /\ crashed' \in BOOLEAN
    /\ start_cycle' = start_cycle + 1
    /\ one_sample' = one_sample + 1
    /\ pc' = [pc EXCEPT ![1] = "one_poll"]
    /\ UNCHANGED <<mode, ppVars, relaxVars, statVars, m_errors, workCalls,
                   m_attempts_count, tsc, m_end_cycles, cont,
                   runnerVars, latchVars, anotherVars, sharedVars>>

\* ---- one_side_asm_relax_branch_pred_test::another_work (tests.cpp:207-233) ----

\* loop condition true: m_continue.store(1), and the start of the loop over
\* m_samples
relax_go ==
    /\ ~crashed
    /\ pc[2] = "relax_loop"
    /\ AttemptsLeft(attempt)
    /\ m_continue' = GO
    /\ goCount' = goCount + 1
    /\ sample_idx' = 0
    /\ pc' = [pc EXCEPT ![2] = IF Len(m_samples) > 0 THEN "relax_load" ELSE "relax_find"]
    /\ UNCHANGED <<mode, ppVars, statVars, crashed, m_errors, workCalls,
                   m_attempts_count, tsc, g_test_data,
                   m_samples, loadCount, endValue, seenGo,
                   another_sample, end_cycle, attempt, endAfterStart,
                   runnerVars, latchVars, bufVars, oneVars>>

\* consume_and_get_cycles(sample.first), its first instruction: the load of
\* g_test_data into sample.first
relax_load ==
    /\ ~crashed
    /\ pc[2] = "relax_load"
    /\ m_samples' = [m_samples EXCEPT ![sample_idx + 1] = <<g_test_data, @[2]>>]
    /\ loadCount' = loadCount + 1
    /\ pc' = [pc EXCEPT ![2] = "relax_rdtsc"]
    /\ UNCHANGED <<mode, ppVars, statVars, crashed, m_errors, workCalls,
                   m_attempts_count, tsc, sample_idx, endValue, seenGo,
                   runnerVars, latchVars, bufVars, oneVars, anotherVars, sharedVars>>

\* consume_and_get_cycles, its rdtsc: sample.second = the stamp; and the next
\* element of m_samples
relax_rdtsc ==
    /\ ~crashed
    /\ pc[2] = "relax_rdtsc"
    /\ m_samples' = [m_samples EXCEPT ![sample_idx + 1] = <<@[1], tsc>>]
    /\ sample_idx' = sample_idx + 1
    /\ pc' = [pc EXCEPT ![2] = IF sample_idx + 1 < Len(m_samples)
                              THEN "relax_load" ELSE "relax_find"]
    /\ UNCHANGED <<mode, ppVars, statVars, crashed, m_errors, workCalls,
                   m_attempts_count, tsc, loadCount, endValue, seenGo,
                   runnerVars, latchVars, bufVars, oneVars, anotherVars, sharedVars>>

\* variant: a value of an earlier attempt also counts as a match
Found_earlier(first, sample) == first <= sample

\* the predicate of find_if: v.first == data_sample
Found(first, sample) == first = sample

\* find_if(m_samples.begin(), m_samples.end(), ...): the index of the first
\* element the predicate holds for, 0 for m_samples.end()
FindIf(sample) ==
    IF \E j \in 1..Len(m_samples) : Found(m_samples[j][1], sample)
    THEN CHOOSE j \in 1..Len(m_samples) :
            /\ Found(m_samples[j][1], sample)
            /\ \A k \in 1..(j - 1) : ~Found(m_samples[k][1], sample)
    ELSE 0

\* the find_if over the window; if it finds an element *end_cycle = it->second
\* (undefined as in one_rdtsc when the vector has no such element);
\* ++end_cycle; ++data_sample; ++attempt
relax_find ==
    /\ ~crashed
    /\ pc[2] = "relax_find"
    /\ LET it == FindIf(another_sample)
       IN  IF it # 0
           THEN IF end_cycle < Len(m_end_cycles)
                THEN /\ m_end_cycles' = [m_end_cycles EXCEPT ![end_cycle + 1] = m_samples[it][2]]
                     /\ endValue' = [endValue EXCEPT ![end_cycle] = m_samples[it][1]]
                     /\ crashed' = FALSE
                ELSE /\ UNCHANGED <<m_end_cycles, endValue>>
                     /\ crashed' \in BOOLEAN
           ELSE UNCHANGED <<m_end_cycles, endValue, crashed>>
    /\ end_cycle' = end_cycle + 1
    /\ another_sample' = another_sample + 1
    /\ attempt' = attempt + 1
    /\ pc' = [pc EXCEPT ![2] = "relax_loop"]
    /\ UNCHANGED <<mode, ppVars, statVars, m_errors, workCalls,
                   m_attempts_count, tsc, m_start_cycles,
                   m_samples, sample_idx, loadCount, seenGo, goCount, endAfterStart,
                   runnerVars, latchVars, oneVars, sharedVars>>

\* loop condition false: m_continue.store(-1) and return
relax_stop ==
    /\ ~crashed
    /\ pc[2] = "relax_loop"
    /\ ~AttemptsLeft(attempt)
    /\ m_continue' = STOP
    /\ pc' = [pc EXCEPT ![2] = "done"]
    /\ UNCHANGED <<mode, ppVars, relaxVars, statVars, crashed, m_errors, workCalls,
                   m_attempts_count, tsc, g_test_data,
                   runnerVars, latchVars, bufVars, oneVars, anotherVars>>

\* ---- ping_pong_test::one_work (tests.cpp:236-248) ----

\* variant: one_work gives up one round early
OneRoundsLeft_short(i) == i < s_ping_pongs - 2

\* the rounds of one_work: for (i = 0; i < s_ping_pongs; ...)
OneRoundsLeft(i) == i < s_ping_pongs

\* the outer loop: the next element of m_cycles: g_test_data.store(0); or the end
pp_one_begin ==
    /\ ~crashed
    /\ pc[1] = "pp_one_begin"
    /\ IF one_attempt < Len(m_cycles)
       THEN /\ g_test_data' = 0
            /\ casLog' = <<>>
            /\ pc' = [pc EXCEPT ![1] = "pp_one_rdtsc"]
       ELSE /\ UNCHANGED <<g_test_data, casLog>>
            /\ pc' = [pc EXCEPT ![1] = "done"]
    /\ UNCHANGED <<mode, relaxVars, statVars, crashed, m_errors, workCalls,
                   m_attempts_count, tsc, m_continue, m_cycles, one_attempt, one_i,
                   another_attempt, another_i,
                   runnerVars, latchVars, bufVars, oneVars, anotherVars>>

\* cycles_on_attempt = rdtsc(); and the start of the inner loop, i = 0
pp_one_rdtsc ==
    /\ ~crashed
    /\ pc[1] = "pp_one_rdtsc"
    /\ m_cycles' = [m_cycles EXCEPT ![one_attempt + 1] = tsc]
    /\ one_i' = 0
    /\ pc' = [pc EXCEPT ![1] = IF OneRoundsLeft(0) THEN "pp_one_cas" ELSE "pp_one_end"]
    /\ UNCHANGED <<mode, relaxVars, statVars, crashed, m_errors, workCalls,
                   m_attempts_count, tsc, one_attempt, another_attempt, another_i, casLog,
                   runnerVars, latchVars, bufVars, oneVars, anotherVars, sharedVars>>

\* one compare_exchange_strong(v, i+1) with v = i; on success the ++i of the
\* body and the ++i of the for statement; on failure v = i and the same again
pp_one_cas ==
    /\ ~crashed
    /\ pc[1] = "pp_one_cas"
    /\ IF g_test_data = one_i
       THEN /\ g_test_data' = one_i + 1
            /\ casLog' = Append(casLog, <<1, one_i>>)
            /\ one_i' = one_i + 2
            /\ pc' = [pc EXCEPT ![1] = IF OneRoundsLeft(one_i + 2)
                                      THEN "pp_one_cas" ELSE "pp_one_end"]
       ELSE UNCHANGED <<g_test_data, casLog, one_i, pc>>
    /\ UNCHANGED <<mode, relaxVars, statVars, crashed, m_errors, workCalls,
                   m_attempts_count, tsc, m_continue, m_cycles, one_attempt,
                   another_attempt, another_i,
                   runnerVars, latchVars, bufVars, oneVars, anotherVars>>

\* cycles_on_attempt = rdtsc() - cycles_on_attempt; and the next element
pp_one_end ==
    /\ ~crashed
    /\ pc[1] = "pp_one_end"
    /\ m_cycles' = [m_cycles EXCEPT ![one_attempt + 1] = tsc - @]
    /\ one_attempt' = one_attempt + 1
    /\ pc' = [pc EXCEPT ![1] = "pp_one_begin"]
    /\ UNCHANGED <<mode, relaxVars, statVars, crashed, m_errors, workCalls,
                   m_attempts_count, tsc, one_i, another_attempt, another_i, casLog,
                   runnerVars, latchVars, bufVars, oneVars, anotherVars, sharedVars>>

\* ---- ping_pong_test::another_work (tests.cpp:250-259) ----

\* variant: another_work runs as many rounds as one_work
AnotherRoundsLeft_full(i) == i < s_ping_pongs

\* the rounds of another_work: for (i = 1; i < s_ping_pongs - 1; ...)
AnotherRoundsLeft(i) == i < s_ping_pongs - 1

\* the outer loop: attempt != 0, and the start of the inner loop, i = 1
pp_another_begin ==
    /\ ~crashed
    /\ pc[2] = "pp_another_begin"
    /\ IF another_attempt # 0
       THEN /\ another_i' = 1
            /\ IF AnotherRoundsLeft(1)
               THEN /\ pc' = [pc EXCEPT ![2] = "pp_another_cas"]
                    /\ another_attempt' = another_attempt
               ELSE /\ pc' = pc
                    /\ another_attempt' = another_attempt - 1
       ELSE /\ pc' = [pc EXCEPT ![2] = "done"]
            /\ UNCHANGED <<another_i, another_attempt>>
    /\ UNCHANGED <<mode, relaxVars, statVars, crashed, m_errors, workCalls,
                   m_attempts_count, tsc, m_cycles, one_attempt, one_i, casLog,
                   runnerVars, latchVars, bufVars, oneVars, anotherVars, sharedVars>>

\* one compare_exchange_strong(v, i+1) with v = i; on success i advances by 2,
\* and after the last round --attempt
pp_another_cas ==
    /\ ~crashed
    /\ pc[2] = "pp_another_cas"
    /\ IF g_test_data = another_i
       THEN /\ g_test_data' = another_i + 1
            /\ casLog' = Append(casLog, <<2, another_i>>)
            /\ another_i' = another_i + 2
            /\ IF AnotherRoundsLeft(another_i + 2)
               THEN UNCHANGED <<pc, another_attempt>>
               ELSE /\ pc' = [pc EXCEPT ![2] = "pp_another_begin"]
                    /\ another_attempt' = another_attempt - 1
       ELSE UNCHANGED <<g_test_data, casLog, another_i, another_attempt, pc>>
    /\ UNCHANGED <<mode, relaxVars, statVars, crashed, m_errors, workCalls,
                   m_attempts_count, tsc, m_continue, m_cycles, one_attempt, one_i,
                   runnerVars, latchVars, bufVars, oneVars, anotherVars>>

\* ---- test_runner::run, the orchestrating thread (main.cpp:97-122) ----

\* t1.join()
join1 ==
    /\ ~crashed
    /\ rpc = "join1"
    /\ pc[1] = "done"
    /\ rpc' = "join2"
    /\ UNCHANGED <<mode, ppVars, relaxVars, statVars, pc, crashed, m_errors, workCalls, m_attempts_count, tsc, res,
                   reports, samples, latchVars, bufVars, oneVars, anotherVars, sharedVars>>

\* t2.join()
join2 ==
    /\ ~crashed
    /\ rpc = "join2"
    /\ pc[2] = "done"
    /\ rpc' = "inspect"
    /\ UNCHANGED <<mode, ppVars, relaxVars, statVars, pc, crashed, m_errors, workCalls, m_attempts_count, tsc, res,
                   reports, samples, latchVars, bufVars, oneVars, anotherVars, sharedVars>>

\* the loop over m_errors: res = 1 for every exception_ptr that is set
RunResult(errs) == IF errs[1] \/ errs[2] THEN 1 ELSE 0

\* slip: the report is made whatever res is
ShouldReport_always(r) == TRUE

\* if (res == 0) report
ShouldReport(r) == r = 0

\* the loop over m_errors; run returns res when it is not 0
inspect ==
    /\ ~crashed
    /\ rpc = "inspect"
    /\ res' = RunResult(m_errors)
    /\ rpc' = IF ShouldReport(res') THEN "report" ELSE "returned"
    /\ UNCHANGED <<mode, ppVars, relaxVars, statVars, pc, crashed, m_errors, workCalls, m_attempts_count, tsc,
                   reports, samples, latchVars, bufVars, oneVars, anotherVars, sharedVars>>

\* variant: report takes the sample of every attempt
EndSet_always(e) == TRUE

\* if (m_end_cycles[i]) in one_side_test::report
EndSet(e) == e # 0

\* one_side_test::report (tests.cpp:145-154): the durations of the attempts whose
\* end stamp is set, for i = from .. m_start_cycles.size() - 1
RECURSIVE Durations(_)
Durations(from) ==
    IF from > Len(m_start_cycles)
    THEN <<>>
    ELSE IF EndSet(m_end_cycles[from])
         THEN <<m_end_cycles[from] - m_start_cycles[from]>> \o Durations(from + 1)
         ELSE Durations(from + 1)

\* ---- calc_and_print_stat (tests.cpp:63-90) ----
\* A real number is a pair <<numerator, denominator>>; the samples handed over
\* are xs[i] / d for one divisor d, and xs is the sequence of the numerators.

\* sort(samples.begin(), samples.end())
Sorted(xs) == SortSeq(xs, LAMBDA a, b : a < b)

\* variant: the edges are cut from six samples on
Edge_from_six(n) == IF n >= 6 THEN 3 ELSE 0

\* edge = samples.size() > 6 ? 3 : 0
Edge(n) == IF n > 6 THEN 3 ELSE 0

\* the range samples.begin() + edge .. samples.end() - edge
Trimmed(xs) == SubSeq(xs, Edge(Len(xs)) + 1, Len(xs) - Edge(Len(xs)))

\* std::accumulate(first, last, 0.0)
RECURSIVE Accumulate(_)
Accumulate(xs) == IF xs = <<>> THEN 0 ELSE Head(xs) + Accumulate(Tail(xs))

\* std::accumulate of pow(r - mean, 2.0) for mean = sum / (cnt * d), as the
\* numerator over (cnt * d)^2
RECURSIVE AccumulateSquares(_, _, _)
AccumulateSquares(xs, sum, cnt) ==
    IF xs = <<>> THEN 0
    ELSE (Head(xs) * cnt - sum) * (Head(xs) * cnt - sum)
         + AccumulateSquares(Tail(xs), sum, cnt)

\* samples[samples.size() / 2]; on an empty vector the read is outside the
\* vector and yields whatever is there (garbage)
MedianOf(xs, garbage) == IF xs = <<>> THEN garbage ELSE xs[(Len(xs) \div 2) + 1]

\* the nanosecond figure printed next to a cycle value x (a real)
NsOf(x, f) == <<x[1], x[2] * f>>

\* the nanosecond figure printed next to the median: the median itself
MedianNsOf(x, f) == x

\* what is printed for the sorted numerators xs with divisor d and frequency f:
\* the number of measures, mean, rms (by its square) and median in cycles, and
\* with a known frequency each of them in nanoseconds
StatOutput(xs, d, f, garbage) ==
    LET cnt == Len(xs) - 2 * Edge(Len(xs))
        sum == Accumulate(Trimmed(xs))
        sq == AccumulateSquares(Trimmed(xs), sum, cnt)
        mean == <<sum, cnt * d>>
        rms_sq == <<sq, cnt * cnt * cnt * d * d>>
        median == <<MedianOf(xs, garbage), d>>
    IN  IF f # 0
        THEN [printed |-> TRUE, freq |-> f, measures |-> Len(xs),
              mean |-> mean, rms_sq |-> rms_sq, median |-> median,
              mean_ns |-> NsOf(mean, f),
              rms_ns_sq |-> NsOf(NsOf(rms_sq, f), f),
              median_ns |-> MedianNsOf(median, f)]
        ELSE [printed |-> TRUE, freq |-> 0, measures |-> Len(xs),
              mean |-> mean, rms_sq |-> rms_sq, median |-> median]

\* what an out-of-range read of the median can find
Garbage(xs) == IF xs = <<>> THEN {0, 1} ELSE {0}

\* ping_pong_test::report (tests.cpp:261-269): every m_cycles[i] / s_ping_pongs
\* one_side_test::report: the durations, undivided
ReportSamples == IF mode = "ping_pong" THEN m_cycles ELSE Durations(1)
ReportScale == IF mode = "ping_pong" THEN s_ping_pongs ELSE 1

\* test_case->report(std::cout, get_cpu_freq_ghz()): get_cpu_freq_ghz yields 0
\* or the frequency found in /proc/cpuinfo; report collects the samples and
\* calc_and_print_stat sorts them and prints the statistics
report ==
    /\ ~crashed
    /\ rpc = "report"
    /\ samples' = Sorted(ReportSamples)
    /\ sample_scale' = ReportScale
    /\ \E f \in 0..MaxFreq :
         /\ cpufreq_ghz' = f
         /\ \E g \in Garbage(ReportSamples) :
              out' = StatOutput(samples', sample_scale', f, g)
    /\ reports' = reports + 1
    /\ rpc' = "returned"
    /\ UNCHANGED <<mode, ppVars, relaxVars, pc, crashed, m_errors, workCalls,
                   m_attempts_count, tsc, res,
                   latchVars, bufVars, oneVars, anotherVars, sharedVars>>

Runner ==
    \/ join1
    \/ join2
    \/ inspect
    \/ report

Worker(w) ==
    \/ set_thread_affinity(w)
    \/ prepare(w)
    \/ arrive(w)
    \/ poll(w)
    \/ check_peer(w)

one_work ==
    \/ one_poll
    \/ one_reset
    \/ one_rdtsc
    \/ one_store
    \/ asm_store
    \/ asm_rdtsc
    \/ pp_one_begin
    \/ pp_one_rdtsc
    \/ pp_one_cas
    \/ pp_one_end

another_work ==
    \/ another_go
    \/ another_rdtsc
    \/ another_load
    \/ another_stop
    \/ relax_go
    \/ relax_load
    \/ relax_rdtsc
    \/ relax_find
    \/ relax_stop
    \/ pp_another_begin
    \/ pp_another_cas

\* the steps of thread t1 and of thread t2
t1 == Worker(1) \/ one_work
t2 == Worker(2) \/ another_work

Next ==
    \/ Tick
    \/ \E w \in Workers : Worker(w)
    \/ one_work
    \/ another_work
    \/ Runner

Spec == Init /\ [][Next]_vars

\* the scheduler runs each thread that can take a step; the orchestrating thread
\* is woken up when the thread it joins has ended
FairSpec == Spec /\ WF_vars(t1) /\ WF_vars(t2) /\ WF_vars(Runner)

\* only the secondary thread is scheduled fairly: the primary may stop at any
\* point for ever
SecondaryFairSpec == Spec /\ WF_vars(t2)

\* ---- calc_and_print_stat on its own ----

\* the values the samples of an input are drawn from
SampleValues == {-1, 0, 2}

\* the sample vector of the worked example of the specification, in three orders
ExampleSamples ==
    { <<-1000, 10, 20, 30, 40, 50, 60, 70, 1000>>,
      <<1000, 70, 60, 50, 40, 30, 20, 10, -1000>>,
      <<40, 1000, 10, 60, -1000, 30, 70, 20, 50>> }

\* the vectors handed to calc_and_print_stat
StatInputs ==
    UNION {[1..n -> SampleValues] : n \in 0..MaxSamples} \cup ExampleSamples

\* the state at a call calc_and_print_stat(os, samples, cpufreq_ghz): samples of
\* durations (divisor 1) or of ping_pong_test (divisor s_ping_pongs)
StatInit ==
    /\ samples \in StatInputs
    /\ sample_scale \in {1, s_ping_pongs}
    /\ cpufreq_ghz \in 0..MaxFreq
    /\ out = NoOutput
    /\ rpc = "stat"
    /\ reports = 0
    /\ res = 0
    /\ mode = "one_side"
    /\ pc = [w \in Workers |-> "done"]
    /\ crashed = FALSE
    /\ m_counter = 0
    /\ fetched = [w \in Workers |-> w]
    /\ m_errors = [w \in Workers |-> FALSE]
    /\ workCalls = [w \in Workers |-> 1]
    /\ m_attempts_count = 1
    /\ m_start_cycles = <<>>
    /\ m_end_cycles = <<>>
    /\ m_continue = WAIT
    /\ g_test_data = 0
    /\ tsc = 1
    /\ cont = 0
    /\ one_sample = 0
    /\ start_cycle = 0
    /\ another_sample = 0
    /\ end_cycle = 0
    /\ attempt = 0
    /\ goCount = 0
    /\ endAfterStart = [i \in 0..(MaxAttempts + 1) |-> FALSE]
    /\ m_cycles = <<>>
    /\ one_attempt = 0
    /\ one_i = 0
    /\ another_attempt = 0
    /\ another_i = 0
    /\ casLog = <<>>
    /\ m_samples = <<>>
    /\ sample_idx = 0
    /\ loadCount = 0
    /\ endValue = [i \in 0..(MaxAttempts + 1) |-> 0]
    /\ seenGo = 0

\* calc_and_print_stat (tests.cpp:63-90): sorts the vector in place and prints
calc_and_print_stat ==
    /\ rpc = "stat"
    /\ samples' = Sorted(samples)
    /\ \E g \in Garbage(samples) :
         out' = StatOutput(samples', sample_scale, cpufreq_ghz, g)
    /\ rpc' = "stat_done"
    /\ UNCHANGED <<mode, ppVars, relaxVars, sample_scale, cpufreq_ghz, pc, crashed,
                   m_errors, workCalls, m_attempts_count, tsc, res, reports,
                   latchVars, bufVars, oneVars, anotherVars, sharedVars>>

StatNext == calc_and_print_stat

StatSpec == StatInit /\ [][StatNext]_vars

\* ---- properties ----

N == m_attempts_count

\* worker w has returned from m_start_barrier.arrive_and_wait()
Returned(w) == pc[w] \notin {"affinity", "prepare", "arrive", "poll"}

\* worker w has performed its fetch_sub on m_counter
Decremented(w) == fetched[w] # 0

\* the try block of worker w (core binding and prepare) has ended
SetupEnded(w) == pc[w] \notin {"affinity", "prepare"}

\* the thread function of worker w has returned
Ended(w) == pc[w] = "done"

NoFailure == ~m_errors[1] /\ ~m_errors[2]

\* C1: with expected count 2 and one arrive_and_wait() per thread, no call
\* returns before both threads have decremented the counter.
C1_NoReturnBeforeBothArrived ==
    \A w \in Workers : Returned(w) => \A v \in Workers : Decremented(v)

C1_Witness ==
    /\ pc[1] = "released" /\ pc[2] = "released"
    /\ fetched[1] + fetched[2] = 3

\* C2: once both threads have called arrive_and_wait(), both calls return (as
\* long as the process lives); the call that found the counter at 1 returns
\* without polling, the other one polls.
C2_BothCallsReturn ==
    /\ [](\A w \in Workers : pc[w] = "poll" => fetched[w] = LatchExpected)
    /\ ((\A w \in Workers : Decremented(w)) ~> ((\A w \in Workers : Returned(w)) \/ crashed))

C2_Witness ==
    /\ ~crashed
    /\ Returned(1) /\ Returned(2)
    /\ fetched[1] = 1 /\ fetched[2] = 2

\* the buffers the prepare of worker w allocates have their full size
Allocated(w) ==
    IF w = 1
    THEN (IF mode = "ping_pong" THEN Len(m_cycles) = N ELSE Len(m_start_cycles) = N)
    ELSE /\ mode # "ping_pong" => Len(m_end_cycles) = N
         /\ mode = "relax" => Len(m_samples) = WindowSize

\* C3: no work phase starts before the setup (binding and prepare) of both
\* workers has ended, and a worker released without a failure of its own has
\* its buffers allocated.
C3_WorkAfterBothPrepared ==
    /\ \A w \in Workers : workCalls[w] > 0 => \A v \in Workers : SetupEnded(v)
    /\ \A w \in Workers : (Returned(w) /\ ~m_errors[w]) => Allocated(w)

C3_Witness ==
    /\ pc[1] = "one_poll" /\ pc[2] = "another_loop"
    /\ workCalls[1] = 1 /\ workCalls[2] = 1
    /\ Len(m_start_cycles) = N /\ Len(m_end_cycles) = N

\* C4: when a worker's setup has recorded a failure, the other worker's work
\* phase is never called.
C4_PeerFailureSkipsWork ==
    \A w \in Workers : m_errors[w] => workCalls[Other(w)] = 0

C4_Witness ==
    /\ m_errors[1] /\ ~m_errors[2]
    /\ Ended(2) /\ workCalls[2] = 0

\* C5: when any worker's setup has failed, no work phase is entered at all, the
\* work phase of the failed worker included.
C5_NoWorkAfterAnyFailure ==
    (m_errors[1] \/ m_errors[2]) => \A v \in Workers : workCalls[v] = 0

\* exactly one worker has recorded a failure and both have left the barrier
PartialFailure ==
    /\ m_errors[1] # m_errors[2]
    /\ Returned(1) /\ Returned(2)

\* C6: under partial failure of a run of one_side_test both worker threads end
\* and run returns.
C6_PartialFailureTerminates ==
    (mode = "one_side" /\ PartialFailure) ~> (Ended(1) /\ Ended(2) /\ rpc = "returned")

\* C7: when both workers have ended, run returns non-zero without a report if a
\* failure was captured; otherwise it reports exactly once, after both work
\* phases have completed, and returns 0.
C7_RunResult ==
    /\ reports <= 1
    /\ rpc \in {"report", "returned"} => (res = 0 <=> NoFailure)
    /\ rpc = "returned" => reports = (IF NoFailure THEN 1 ELSE 0)
    /\ rpc # "returned" => reports = 0
    /\ rpc \in {"inspect", "report", "returned"} => Ended(1) /\ Ended(2)
    /\ reports = 1 => workCalls[1] = 1 /\ workCalls[2] = 1

C7_Witness ==
    /\ rpc = "returned"
    /\ m_errors[1] /\ m_errors[2]
    /\ res = 1 /\ reports = 0

\* C8: in one_side_test with both prepares successful the loop of another_work runs exactly
\* attempts_count times, and when both work phases have ended the end stamps of
\* indices 0..attempts_count-1 are all recorded.
C8_ExactlyNEndStamps ==
    (mode = "one_side" /\ NoFailure) =>
      /\ goCount <= N
      /\ goCount \in {attempt, attempt + 1}
      /\ Ended(2) => goCount = N /\ attempt = N /\ end_cycle = N
      /\ (Ended(1) /\ Ended(2)) =>
            /\ Len(m_end_cycles) = N
            /\ \A i \in 1..N : m_end_cycles[i] # 0

C8_Witness ==
    /\ mode = "one_side"
    /\ NoFailure /\ Ended(1) /\ Ended(2)
    /\ N = MaxAttempts /\ goCount = MaxAttempts

\* C9 as stated: after a failure-free run of one_side_test every duration end[i] - start[i] is
\* non-negative.
C9_DurationsNonNegative ==
    (mode = "one_side" /\ NoFailure /\ Ended(1) /\ Ended(2)) =>
        \A i \in 1..N : m_end_cycles[i] - m_start_cycles[i] >= 0

\* C9 amended: in one_side_test the duration of a completed attempt is non-negative whenever the
\* secondary read its last end stamp after the primary had read the start stamp
\* of that attempt.
C9_NonNegativeWhenStampedAfter ==
    (mode = "one_side" /\ NoFailure) =>
        \A i \in 1..Len(m_end_cycles) :
            (i <= end_cycle /\ endAfterStart[i - 1]) =>
                m_end_cycles[i] - m_start_cycles[i] >= 0

C9_Witness ==
    /\ mode = "one_side"
    /\ NoFailure /\ Ended(1) /\ Ended(2)
    /\ \E i \in 1..N : endAfterStart[i - 1] /\ m_end_cycles[i] > m_start_cycles[i]
    /\ \E i \in 1..N : ~endAfterStart[i - 1] /\ m_end_cycles[i] < m_start_cycles[i]

\* C10: in one_side_test with both prepares successful both work phases terminate: the secondary
\* completes all its attempts and stores stop, and the primary leaves its loop
\* only on reading stop.
C10_WorkPhasesTerminate ==
    /\ [](mode = "one_side" /\ Ended(1) /\ workCalls[1] = 1 => Ended(2) /\ cont = STOP)
    /\ ((mode = "one_side" /\ workCalls[1] = 1 /\ workCalls[2] = 1) ~>
            (Ended(1) /\ Ended(2) /\ m_continue = STOP /\ attempt = N))

C10_Witness ==
    /\ mode = "one_side"
    /\ workCalls[1] = 1 /\ workCalls[2] = 1
    /\ Ended(1) /\ Ended(2)
    /\ m_continue = STOP /\ cont = STOP /\ attempt = N
\* the worker whose CAS is the k-th successful one of an attempt
SideOf(k) == IF k % 2 = 1 THEN 1 ELSE 2

\* C11 as stated: in ping_pong_test the successful CAS of an attempt take the
\* expected values 0..s_ping_pongs-1 once each in increasing order, the two
\* workers alternating.
C11_CasTakesAllValues ==
    (mode = "ping_pong" /\ pc[1] = "pp_one_end") =>
        /\ Len(casLog) = s_ping_pongs
        /\ \A k \in 1..Len(casLog) : casLog[k] = <<SideOf(k), k - 1>>

\* C11 amended: the successful CAS of an attempt take the expected values
\* 0..s_ping_pongs-2 once each in increasing order, the two workers alternating
\* and the primary making the first and the last one; the value s_ping_pongs-1
\* is stored by the last CAS and is never the expected value of a successful one.
C11_CasAlternates ==
    mode = "ping_pong" =>
        /\ Len(casLog) <= s_ping_pongs - 1
        /\ \A k \in 1..Len(casLog) : casLog[k] = <<SideOf(k), k - 1>>
        /\ pc[1] = "pp_one_end" =>
              /\ Len(casLog) = s_ping_pongs - 1
              /\ g_test_data = s_ping_pongs - 1

C11_Witness ==
    /\ mode = "ping_pong"
    /\ pc[1] = "pp_one_end" /\ one_attempt = 1
    /\ Len(casLog) = s_ping_pongs - 1
    /\ casLog[s_ping_pongs - 1] = <<1, s_ping_pongs - 2>>
\* both work phases of ping_pong_test have been entered
PingPongRuns == mode = "ping_pong" /\ workCalls[1] = 1 /\ workCalls[2] = 1

\* the number of attempts another_work of ping_pong_test has completed
AnotherDone == Len(m_cycles) - another_attempt

\* C19: in ping_pong_test, once both work phases have been entered, both end
\* after attempts_count attempts each; and another_work has a successful CAS
\* in an attempt only while one_work is in the rounds of the same attempt, past
\* its store of 0 and its first CAS, so never on a value the previous attempt
\* left in g_test_data.
C19_PingPongTerminates ==
    /\ [](PingPongRuns /\ pc[2] = "pp_another_cas" /\ another_i > 1 =>
            /\ pc[1] = "pp_one_cas"
            /\ one_attempt = AnotherDone
            /\ one_i \in {another_i - 1, another_i + 1})
    /\ [](PingPongRuns => AnotherDone \in {one_attempt, one_attempt + 1})
    /\ (PingPongRuns ~>
            (Ended(1) /\ Ended(2) /\ one_attempt = N /\ another_attempt = 0))

C19_Witness ==
    /\ PingPongRuns
    /\ N = MaxAttempts
    /\ Ended(1) /\ Ended(2)
    /\ one_attempt = N /\ another_attempt = 0
    /\ g_test_data = s_ping_pongs - 1
\* the attempts (from 0) of the relax another_work whose window held the
\* expected value
Present == {i \in 0..(end_cycle - 1) : endValue[i] # 0}

\* the step of relax_find in which find_if returns m_samples.end()
WindowMissed ==
    /\ mode = "relax"
    /\ pc[2] = "relax_find" /\ pc'[2] = "relax_loop"
    /\ FindIf(another_sample) = 0

\* C12: in the relax test an attempt whose window does not hold the expected
\* value leaves its end stamp unset and raises no error, and after a
\* failure-free run the samples handed to calc_and_print_stat are those of the
\* other attempts only: their number is the number of measures and the divisor
\* of the mean.
C12_MissDropsSample ==
    /\ [][WindowMissed =>
            /\ m_end_cycles' = m_end_cycles
            /\ m_errors' = m_errors
            /\ crashed' = crashed
            /\ end_cycle' = end_cycle + 1]_vars
    /\ [](mode = "relax" /\ NoFailure /\ Ended(2) =>
            \A i \in 0..(N - 1) : i \in Present <=> m_end_cycles[i + 1] # 0)
    /\ [](mode = "relax" /\ NoFailure /\ reports = 1 =>
            /\ res = 0
            /\ Len(samples) = Cardinality(Present)
            /\ out.measures = Cardinality(Present)
            /\ out.mean[2] = Cardinality(Present) - 2 * (IF Cardinality(Present) > 6 THEN 3 ELSE 0))

C12_Witness ==
    /\ mode = "relax" /\ NoFailure /\ reports = 1
    /\ N = MaxAttempts
    /\ endValue[0] = 0 /\ m_end_cycles[1] = 0
    /\ endValue[1] = 2 /\ m_end_cycles[2] # 0
    /\ Len(samples) = 1 /\ out.measures = 1
\* the relax another_work has been entered after a successful another_prepare
RelaxSecondaryRuns == mode = "relax" /\ workCalls[2] = 1 /\ ~m_errors[2]

\* C13: the relax another_work ends after exactly attempts_count windows of
\* WindowSize reads each, whatever one_work does, and its last step stores stop.
C13_SecondaryTerminates ==
    /\ [](RelaxSecondaryRuns =>
            /\ goCount <= N
            /\ loadCount <= N * WindowSize
            /\ Ended(2) => goCount = N /\ attempt = N /\ loadCount = N * WindowSize)
    /\ [][mode = "relax" /\ pc[2] = "relax_loop" /\ pc'[2] = "done" =>
            m_continue' = STOP]_vars
    /\ (RelaxSecondaryRuns ~>
            (Ended(2) /\ goCount = N /\ loadCount = N * WindowSize))

C13_Witness ==
    /\ RelaxSecondaryRuns /\ Ended(2)
    /\ N = MaxAttempts /\ loadCount = MaxAttempts * WindowSize
    /\ pc[1] = "one_poll" /\ one_sample = 1 /\ g_test_data = 0
    /\ m_continue = STOP
\* C15: in the relax test, once another_work has stored stop, one_work ends.
C15_PrimaryExitsAfterStop ==
    (mode = "relax" /\ NoFailure /\ workCalls[1] = 1 /\ Ended(2)) ~> Ended(1)
\* one_work has read go and is about to write, or is writing, the value
\* start_cycle + 1 and the start stamp of index start_cycle
OneAnswers == pc[1] \in {"one_reset", "asm_store", "asm_rdtsc"}

\* C17: in the relax test one_work writes start[i] and the value i+1 in answer
\* to the go of attempt i of another_work: the go it has read is the one stored
\* in attempt start_cycle (the go number start_cycle + 1).
C17_StartAnswersOwnGo ==
    (mode = "relax" /\ NoFailure /\ OneAnswers) => seenGo = start_cycle + 1
\* one_work of the relax test has executed its store of the value v
OneStored(v) == one_sample > v \/ (one_sample = v /\ pc[1] = "asm_rdtsc")

\* C20: in the relax test a set end[i] is the stamp of a read of g_test_data
\* that returned i+1, taken in attempt i, after one_work stored i+1; and
\* one_work writes the value i+1 and start[i] together, so start[i] belongs to
\* the same value.
C20_EndIsStampOfMatch ==
    (mode = "relax" /\ NoFailure) =>
        /\ workCalls[1] = 1 => start_cycle = one_sample - 1
        /\ \A i \in 0..(Len(m_end_cycles) - 1) :
              m_end_cycles[i + 1] # 0 =>
                  /\ i < end_cycle
                  /\ endValue[i] = i + 1
                  /\ OneStored(i + 1)
                  /\ m_start_cycles[i + 1] # 0 \/ (pc[1] = "asm_rdtsc" /\ start_cycle = i)

C20_Witness ==
    /\ mode = "relax" /\ NoFailure
    /\ N = MaxAttempts
    /\ Len(m_end_cycles) = N /\ Len(m_start_cycles) = N
    /\ \A i \in 0..(N - 1) : m_end_cycles[i + 1] # 0 /\ endValue[i] = i + 1
    /\ m_start_cycles[N] # 0
\* both work phases of one_side_test have been entered after successful setups
OneSidedRuns ==
    mode = "one_side" /\ NoFailure /\ workCalls[1] = 1 /\ workCalls[2] = 1

\* one_work of one_side_test has read go and has not yet stored its value
OneResponds == pc[1] \in {"one_reset", "one_rdtsc", "one_store"}

\* C16: in one_side_test the k-th store to g_test_data (value k, start index
\* k-1) happens after the k-th go and before the next one; a go that is set is
\* the one one_work is waiting for; the stored values are 1, 2, ..,
\* attempts_count, each one more than the last; and no start stamp is written
\* at an index >= attempts_count.
C16_Lockstep ==
    /\ [](OneSidedRuns =>
            /\ ~crashed
            /\ goCount \in {g_test_data, g_test_data + 1}
            /\ OneResponds =>
                  /\ goCount = one_sample /\ seenGo = one_sample
                  /\ g_test_data = one_sample - 1
                  /\ start_cycle = one_sample - 1 /\ start_cycle < N
            /\ m_continue = GO =>
                  /\ pc[1] \in {"one_poll", "one_reset"}
                  /\ goCount = one_sample
            /\ (Ended(1) /\ Ended(2)) => g_test_data = N /\ start_cycle = N)
    /\ [][mode = "one_side" /\ g_test_data' # g_test_data =>
            /\ g_test_data' = g_test_data + 1
            /\ g_test_data' = one_sample
            /\ g_test_data' = goCount
            /\ g_test_data' <= N]_vars

C16_Witness ==
    /\ OneSidedRuns
    /\ N = MaxAttempts
    /\ pc[1] = "one_store" /\ one_sample = MaxAttempts
    /\ goCount = MaxAttempts /\ g_test_data = MaxAttempts - 1
\* the sum of xs[lo..hi]
RECURSIVE SumRange(_, _, _)
SumRange(xs, lo, hi) == IF lo > hi THEN 0 ELSE xs[lo] + SumRange(xs, lo + 1, hi)

\* ys holds the elements of xs in ascending order
AscendingOf(xs, ys) ==
    /\ Len(ys) = Len(xs)
    /\ \A i \in 1..(Len(ys) - 1) : ys[i] <= ys[i + 1]
    /\ \A i \in 1..Len(xs) :
          Cardinality({j \in 1..Len(xs) : xs[j] = xs[i]})
              = Cardinality({j \in 1..Len(ys) : ys[j] = xs[i]})

\* x and y, pairs <<numerator, denominator>>, are the same real number
SameReal(x, y) == x[2] # 0 /\ y[2] # 0 /\ x[1] * y[2] = y[1] * x[2]

\* C14: for a non-empty input in any order calc_and_print_stat prints the mean
\* of the ascending samples without the lowest and highest k (k = 3 for more
\* than 6 samples, else 0) and as median the sample at index count \div 2 of the
\* whole ascending sequence; for the example vector the mean is taken over
\* 30, 40, 50 and is 40, and the median is 40.
C14_TrimmedMeanAndMedian ==
    /\ [][(rpc = "stat" /\ rpc' = "stat_done" /\ samples # <<>>) =>
            LET n == Len(samples)
                k == IF n > 6 THEN 3 ELSE 0
            IN  /\ AscendingOf(samples, samples')
                /\ out'.measures = n
                /\ SameReal(out'.mean,
                            <<SumRange(samples', k + 1, n - k), (n - 2 * k) * sample_scale>>)
                /\ SameReal(out'.median, <<samples'[(n \div 2) + 1], sample_scale>>)]_vars
    /\ [][(rpc = "stat" /\ rpc' = "stat_done" /\ samples \in ExampleSamples
                /\ sample_scale = 1) =>
            /\ SubSeq(samples', 4, 6) = <<30, 40, 50>>
            /\ out'.mean[2] = 3
            /\ SameReal(out'.mean, <<40, 1>>)
            /\ SameReal(out'.median, <<40, 1>>)]_vars

C14_Witness ==
    /\ rpc = "stat_done"
    /\ samples = <<-1000, 10, 20, 30, 40, 50, 60, 70, 1000>>
    /\ sample_scale = 1
    /\ out.measures = 9
    /\ out.mean = <<120, 3>>
    /\ out.median = <<40, 1>>

\* C18: with a non-zero frequency each of mean, rms and median is also printed
\* in nanoseconds, as the cycle value divided by the frequency (for the rms:
\* its square divided by the square of the frequency).
C18_NanosecondsAreCyclesOverFreq ==
    (rpc = "stat_done" /\ samples # <<>> /\ cpufreq_ghz # 0) =>
        /\ SameReal(out.mean_ns, <<out.mean[1], out.mean[2] * cpufreq_ghz>>)
        /\ SameReal(out.rms_ns_sq,
                    <<out.rms_sq[1], out.rms_sq[2] * cpufreq_ghz * cpufreq_ghz>>)
        /\ SameReal(out.median_ns, <<out.median[1], out.median[2] * cpufreq_ghz>>)
\* C21: whenever report has run after a failure-free run, the samples handed
\* to calc_and_print_stat are not empty, so the divisor of the mean
\* (count - 2k) is positive and the median index count \div 2 is inside the
\* vector; in every test case.
C21_ReportSamplesNonEmpty ==
    (NoFailure /\ reports = 1) =>
        /\ Len(samples) > 0
        /\ out.mean[2] > 0
        /\ (Len(samples) \div 2) + 1 \in 1..Len(samples)
====
